---- MODULE Spec2Model ----
(***************************************************************************)
(* Model of src/app.py: the filter -> aggregate -> statistics pipeline of  *)
(* the interactive time-series tool, and the control flow of main().       *)
(*                                                                         *)
(* Text is modelled as a sequence of one-character strings so that         *)
(* strip(), lower(), startswith(), contains(), split() and int() are       *)
(* computed character by character.  Numbers are integers; results of      *)
(* divisions are exact rationals [n, d] in lowest terms (the idealisation  *)
(* of the float arithmetic of pandas / numpy).                             *)
(***************************************************************************)
EXTENDS Integers, Sequences, FiniteSets, TLC

VARIABLES pc, csv, df, gender, start_txt, end_txt, start_year, end_year,
          df_filtered, df_yearly, stats, results, figure, called

vars == <<pc, csv, df, gender, start_txt, end_txt, start_year, end_year,
          df_filtered, df_yearly, stats, results, figure, called>>

----------------------------------------------------------------------------
(* Bounds *)

MaxRows == 3

MaxPoints == 3

MaxPlotPoints == 4

MaxCsvRows == 2

----------------------------------------------------------------------------
(* Text helpers: Python str methods *)

UpperChars == <<"A","B","C","D","E","F","G","H","I","J","K","L","M",
                "N","O","P","Q","R","S","T","U","V","W","X","Y","Z">>

LowerChars == <<"a","b","c","d","e","f","g","h","i","j","k","l","m",
                "n","o","p","q","r","s","t","u","v","w","x","y","z">>

Whitespace == {" ", "\t", "\n"}

LowerChar(c) ==
    IF \E i \in 1..Len(UpperChars) : UpperChars[i] = c
    THEN LowerChars[CHOOSE i \in 1..Len(UpperChars) : UpperChars[i] = c]
    ELSE c

\* str.lower()
Lower(s) == [i \in 1..Len(s) |-> LowerChar(s[i])]

\* str.strip()
Strip(s) ==
    LET keep == {i \in 1..Len(s) : s[i] \notin Whitespace}
    IN IF keep = {} THEN <<>>
       ELSE LET lo == CHOOSE i \in keep : \A j \in keep : i <= j
                hi == CHOOSE i \in keep : \A j \in keep : j <= i
            IN SubSeq(s, lo, hi)

\* str.startswith(p)
StartsWith(s, p) == Len(p) <= Len(s) /\ SubSeq(s, 1, Len(p)) = p

\* Series.str.contains(sub) for a literal pattern
StrContains(s, sub) ==
    \E i \in 1..(Len(s) - Len(sub) + 1) : SubSeq(s, i, i + Len(sub) - 1) = sub

----------------------------------------------------------------------------
(* Text literals *)

txt_empty   == <<>>
txt_all     == <<"a","l","l">>
txt_m       == <<"m">>
txt_male    == <<"m","a","l","e">>
txt_males   == <<"m","a","l","e","s">>
txt_fem     == <<"f","e","m">>
txt_female  == <<"f","e","m","a","l","e">>
txt_females == <<"f","e","m","a","l","e","s">>

\* values of the Sex column
Males           == <<"M","a","l","e","s">>
Females         == <<"F","e","m","a","l","e","s">>
MalesAndFemales == <<"M","a","l","e","s"," ","a","n","d"," ","f","e","m","a","l","e","s">>
Total           == <<"T","o","t","a","l">>

----------------------------------------------------------------------------
(* DataFrame helpers.  A DataFrame is a sequence of rows; every row keeps  *)
(* its index label idx, as pandas does through boolean selection.  Year is *)
(* the calendar year of the row's Timestamp (Year.dt.year).                *)

\* df[mask]
SelectMask(d, mask) ==
    LET F[i \in 0..Len(d)] ==
            IF i = 0 THEN <<>>
            ELSE IF mask[i] THEN Append(F[i-1], d[i]) ELSE F[i-1]
    IN F[Len(d)]

filter_gender_substring_only(d, gender0) ==
    LET g == Lower(Strip(gender0)) IN
    IF g \in {txt_all, txt_empty} THEN d
    ELSE IF StartsWith(g, txt_males) \/ StartsWith(g, txt_male) \/ g = txt_m
    THEN SelectMask(d, [i \in 1..Len(d) |-> StrContains(Lower(d[i].Sex), txt_males)])
    ELSE IF StartsWith(g, txt_female) \/ StartsWith(g, txt_fem)
    THEN SelectMask(d, [i \in 1..Len(d) |-> Lower(d[i].Sex) = txt_females])
    ELSE SelectMask(d, [i \in 1..Len(d) |-> Lower(d[i].Sex) = g])

filter_gender(d, gender0) ==
    LET g == Lower(Strip(gender0)) IN
    IF g \in {txt_all, txt_empty} THEN d
    ELSE IF StartsWith(g, txt_males) \/ StartsWith(g, txt_male) \/ g = txt_m
    THEN LET mask0 == [i \in 1..Len(d) |-> StrContains(Lower(d[i].Sex), txt_males)]
             mask  == IF g = txt_male \/ g = txt_m
                      THEN [i \in 1..Len(d) |-> Lower(d[i].Sex) = txt_males]
                      ELSE mask0
         IN SelectMask(d, mask)
    ELSE IF StartsWith(g, txt_female) \/ StartsWith(g, txt_fem)
    THEN SelectMask(d, [i \in 1..Len(d) |-> Lower(d[i].Sex) = txt_females])
    ELSE SelectMask(d, [i \in 1..Len(d) |-> Lower(d[i].Sex) = g])

filter_year_range_exclusive_end(d, s, e) ==
    SelectMask(d, [i \in 1..Len(d) |-> d[i].Year >= s /\ d[i].Year < e])

filter_year_range(d, s, e) ==
    SelectMask(d, [i \in 1..Len(d) |-> d[i].Year >= s /\ d[i].Year <= e])

----------------------------------------------------------------------------
(* Yearly aggregation *)

\* keys of groupby(...), which pandas returns in ascending order
SortedKeys(S) ==
    LET F[T \in SUBSET S] ==
            IF T = {} THEN <<>>
            ELSE LET lo == CHOOSE y \in T : \A z \in T : y <= z
                 IN <<lo>> \o F[T \ {lo}]
    IN F[S]

\* .sum() of column Value over the rows of group y, in row order
GroupSum(d, y) ==
    LET F[i \in 0..Len(d)] ==
            IF i = 0 THEN 0
            ELSE IF d[i].Year = y THEN F[i-1] + d[i].Value ELSE F[i-1]
    IN F[Len(d)]

\* .first() of column Value over the rows of group y
GroupFirst(d, y) ==
    d[CHOOSE i \in 1..Len(d) : d[i].Year = y /\ \A j \in 1..(i-1) : d[j].Year # y].Value

\* DataFrame.sort_values(col): stable insertion sort, ascending
InsertSorted(sorted, r) ==
    LET k == Cardinality({i \in 1..Len(sorted) : sorted[i].Year <= r.Year})
    IN SubSeq(sorted, 1, k) \o <<r>> \o SubSeq(sorted, k + 1, Len(sorted))

sort_values(g) ==
    LET F[i \in 0..Len(g)] ==
            IF i = 0 THEN <<>> ELSE InsertSorted(F[i-1], g[i])
    IN F[Len(g)]

aggregate_by_year_first(d) ==
    LET keys    == SortedKeys({d[i].Year : i \in 1..Len(d)})
        grouped == [k \in 1..Len(keys) |->
                        [idx |-> k - 1, Year |-> keys[k], Value |-> GroupFirst(d, keys[k])]]
        sorted  == sort_values(grouped)
    IN [k \in 1..Len(sorted) |->
            [idx |-> sorted[k].idx, Year |-> sorted[k].Year,
             YearInt |-> sorted[k].Year, ValueAgg |-> sorted[k].Value]]

aggregate_by_year(d) ==
    LET keys    == SortedKeys({d[i].Year : i \in 1..Len(d)})
        grouped == [k \in 1..Len(keys) |->
                        [idx |-> k - 1, Year |-> keys[k], Value |-> GroupSum(d, keys[k])]]
        sorted  == sort_values(grouped)
    IN [k \in 1..Len(sorted) |->
            [idx |-> sorted[k].idx, Year |-> sorted[k].Year,
             YearInt |-> sorted[k].Year, ValueAgg |-> sorted[k].Value]]

----------------------------------------------------------------------------
(* Exact rational arithmetic *)

Abs(x) == IF x < 0 THEN -x ELSE x

RECURSIVE GCD(_, _)
GCD(a, b) == IF b = 0 THEN a ELSE GCD(b, a % b)

\* n/d in lowest terms with a positive denominator (d # 0)
Rat(n, d) ==
    LET g == GCD(Abs(n), Abs(d))
        s == IF d < 0 THEN -1 ELSE 1
    IN [n |-> (s * n) \div g, d |-> (s * d) \div g]

RatAdd(a, b) == Rat(a.n * b.d + b.n * a.d, a.d * b.d)
RatSub(a, b) == Rat(a.n * b.d - b.n * a.d, a.d * b.d)
RatMul(a, b) == Rat(a.n * b.n, a.d * b.d)
RatDiv(a, b) == Rat(a.n * b.d, a.d * b.n)

----------------------------------------------------------------------------
(* Values stored in the result dict and in the plotted lines *)

Num(r)      == [kind |-> "number", n |-> r.n, d |-> r.d]
IntVal(v)      == Num(Rat(v, 1))
\* the square root of the rational r
SqrtOf(r)   == [kind |-> "sqrt", n |-> r.n, d |-> r.d]
NaN         == [kind |-> "nan"]
NoneValue   == [kind |-> "None"]
Str(t)      == [kind |-> "str", text |-> t]

EmptyDict == [k \in {} |-> NoneValue]

\* dict.update(e)
Update(r, e) ==
    [k \in (DOMAIN r) \cup (DOMAIN e) |-> IF k \in DOMAIN e THEN e[k] ELSE r[k]]

\* x in stats, for a list stats
In(x, list) == \E i \in 1..Len(list) : list[i] = x

----------------------------------------------------------------------------
(* Names of the statistics *)

txt_average        == <<"a","v","e","r","a","g","e">>
txt_max            == <<"m","a","x">>
txt_min            == <<"m","i","n">>
txt_median         == <<"m","e","d","i","a","n">>
txt_stddev         == <<"s","t","d","d","e","v">>
txt_percent_change == <<"p","e","r","c","e","n","t"," ","c","h","a","n","g","e">>
txt_trend          == <<"t","r","e","n","d">>
txt_moving_average == <<"m","o","v","i","n","g"," ","a","v","e","r","a","g","e">>

Vocabulary ==
    << txt_average, txt_max, txt_min, txt_median, txt_stddev,
       txt_percent_change, txt_trend, txt_moving_average >>

----------------------------------------------------------------------------
(* Series reductions *)

SeqSum(v) ==
    LET F[i \in 0..Len(v)] == IF i = 0 THEN 0 ELSE F[i-1] + v[i]
    IN F[Len(v)]

SeqMax(v) == CHOOSE x \in {v[i] : i \in 1..Len(v)} : \A i \in 1..Len(v) : v[i] <= x
SeqMin(v) == CHOOSE x \in {v[i] : i \in 1..Len(v)} : \A i \in 1..Len(v) : x <= v[i]

\* the values in ascending order
SortInts(v) ==
    LET Ins(sorted, x) ==
            LET k == Cardinality({i \in 1..Len(sorted) : sorted[i] <= x})
            IN SubSeq(sorted, 1, k) \o <<x>> \o SubSeq(sorted, k + 1, Len(sorted))
        F[i \in 0..Len(v)] == IF i = 0 THEN <<>> ELSE Ins(F[i-1], v[i])
    IN F[Len(v)]

\* Series.mean()
Mean(v) == Num(Rat(SeqSum(v), Len(v)))

\* Series.median()
Median(v) ==
    LET s == SortInts(v)
        n == Len(v)
    IN IF n % 2 = 1 THEN IntVal(s[(n + 1) \div 2])
       ELSE Num(Rat(s[n \div 2] + s[n \div 2 + 1], 2))

\* Series.std(ddof): NaN when there are not more than ddof values
Std(v, ddof) ==
    LET n   == Len(v)
        sx  == SeqSum(v)
        sxx == SeqSum([i \in 1..n |-> v[i] * v[i]])
    IN IF n - ddof <= 0 THEN NaN
       ELSE SqrtOf(Rat(n * sxx - sx * sx, n * (n - ddof)))

\* np.polyfit(x, y, 1): least-squares slope and intercept (x has >= 2
\* distinct values)
Polyfit1(x, y) ==
    LET n   == Len(x)
        sx  == SeqSum(x)
        sy  == SeqSum(y)
        sxy == SeqSum([i \in 1..n |-> x[i] * y[i]])
        sxx == SeqSum([i \in 1..n |-> x[i] * x[i]])
        slope == Rat(n * sxy - sx * sy, n * sxx - sx * sx)
        intercept == RatDiv(RatSub(Rat(sy, 1), RatMul(slope, Rat(sx, 1))), Rat(n, 1))
    IN [slope |-> slope, intercept |-> intercept]

----------------------------------------------------------------------------
(* calculate_statistics *)

DdofStd == 1

MinTrendPoints == 2

\* the note's dash is written "-" here
PercentChangeEntries_signed(series) ==
    LET first == series[1]
        last  == series[Len(series)]
    IN IF first = 0
       THEN [k \in {"Percent Change (%)", "Percent Change Note"} |->
                IF k = "Percent Change (%)" THEN NoneValue
                ELSE Str("First value is 0 - percent change undefined.")]
       ELSE [k \in {"Percent Change (%)"} |->
                Num(RatMul(Rat(last - first, first), Rat(100, 1)))]

PercentChangeEntries(series) ==
    LET first == series[1]
        last  == series[Len(series)]
    IN IF first = 0
       THEN [k \in {"Percent Change (%)", "Percent Change Note"} |->
                IF k = "Percent Change (%)" THEN NoneValue
                ELSE Str("First value is 0 - percent change undefined.")]
       ELSE [k \in {"Percent Change (%)"} |->
                Num(RatMul(Rat(last - first, Abs(first)), Rat(100, 1)))]

TrendEntries_needs_three(years, series) ==
    IF Len(years) > MinTrendPoints
    THEN LET fit == Polyfit1(years, series)
         IN [k \in {"Trend Slope (value per year)", "Trend Intercept"} |->
                IF k = "Trend Intercept" THEN Num(fit.intercept) ELSE Num(fit.slope)]
    ELSE [k \in {"Trend"} |-> Str("Not enough points to compute trend.")]

TrendEntries(years, series) ==
    IF Len(years) >= MinTrendPoints
    THEN LET fit == Polyfit1(years, series)
         IN [k \in {"Trend Slope (value per year)", "Trend Intercept"} |->
                IF k = "Trend Intercept" THEN Num(fit.intercept) ELSE Num(fit.slope)]
    ELSE [k \in {"Trend"} |-> Str("Not enough points to compute trend.")]

\* the entries of one requested statistic, or nothing when it is not requested
When(cond, entries) == IF cond THEN entries ELSE EmptyDict

RequestedResults_null_filled(years, series, st) ==
    LET r1 == Update(EmptyDict, [k \in {"Average"} |->
                    IF In(txt_average, st) THEN Mean(series) ELSE NoneValue])
        r2 == Update(r1, [k \in {"Max"} |->
                    IF In(txt_max, st) THEN IntVal(SeqMax(series)) ELSE NoneValue])
        r3 == Update(r2, [k \in {"Min"} |->
                    IF In(txt_min, st) THEN IntVal(SeqMin(series)) ELSE NoneValue])
        r4 == Update(r3, [k \in {"Median"} |->
                    IF In(txt_median, st) THEN Median(series) ELSE NoneValue])
        r5 == Update(r4, [k \in {"Std Dev"} |->
                    IF In(txt_stddev, st) THEN Std(series, DdofStd) ELSE NoneValue])
        r6 == Update(r5, When(In(txt_percent_change, st), PercentChangeEntries(series)))
        r7 == Update(r6, When(In(txt_trend, st), TrendEntries(years, series)))
    IN r7

\* lines 68-99: one block per statistic, in this order
RequestedResults(years, series, st) ==
    LET r1 == Update(EmptyDict, When(In(txt_average, st), [k \in {"Average"} |-> Mean(series)]))
        r2 == Update(r1, When(In(txt_max, st), [k \in {"Max"} |-> IntVal(SeqMax(series))]))
        r3 == Update(r2, When(In(txt_min, st), [k \in {"Min"} |-> IntVal(SeqMin(series))]))
        r4 == Update(r3, When(In(txt_median, st), [k \in {"Median"} |-> Median(series)]))
        r5 == Update(r4, When(In(txt_stddev, st), [k \in {"Std Dev"} |-> Std(series, DdofStd)]))
        r6 == Update(r5, When(In(txt_percent_change, st), PercentChangeEntries(series)))
        r7 == Update(r6, When(In(txt_trend, st), TrendEntries(years, series)))
    IN r7

calculate_statistics_empty_dict(dfy, st) ==
    LET series == [i \in 1..Len(dfy) |-> dfy[i].ValueAgg]
        years  == [i \in 1..Len(dfy) |-> dfy[i].YearInt]
    IN IF series = <<>> THEN EmptyDict
       ELSE RequestedResults(years, series, st)

calculate_statistics(dfy, st) ==
    LET series == [i \in 1..Len(dfy) |-> dfy[i].ValueAgg]
        years  == [i \in 1..Len(dfy) |-> dfy[i].YearInt]
    IN IF series = <<>>
       THEN [k \in {"Error"} |-> Str("No data available after filtering/aggregation.")]
       ELSE RequestedResults(years, series, st)

----------------------------------------------------------------------------
(* plot_all_charts: the lines handed to matplotlib, by label *)

RollingWindow == 3

RollingMinPeriods == 1

\* Series.rolling(window, min_periods).mean() with an expanding window
rolling_mean_expanding(values, window, min_periods) ==
    [i \in 1..Len(values) |->
        IF i >= min_periods THEN Num(Rat(SeqSum(SubSeq(values, 1, i)), i)) ELSE NaN]

\* Series.rolling(window, min_periods).mean(): a running sum to which each
\* value is added and from which the value leaving the window is removed
rolling_mean(values, window, min_periods) ==
    LET S[i \in 0..Len(values)] ==
            IF i = 0 THEN 0
            ELSE S[i-1] + values[i] - (IF i > window THEN values[i - window] ELSE 0)
        N[i \in 0..Len(values)] ==
            IF i = 0 THEN 0
            ELSE N[i-1] + 1 - (IF i > window THEN 1 ELSE 0)
    IN [i \in 1..Len(values) |->
            IF N[i] >= min_periods THEN Num(Rat(S[i], N[i])) ELSE NaN]

plot_all_charts(dfy, st) ==
    LET values == [i \in 1..Len(dfy) |-> dfy[i].ValueAgg]
        x_num  == [i \in 1..Len(dfy) |-> dfy[i].YearInt]
        data   == [k \in {"Data"} |-> [i \in 1..Len(values) |-> IntVal(values[i])]]
        trend  == IF In(txt_trend, st) /\ Len(dfy) >= MinTrendPoints
                  THEN LET fit == Polyfit1(x_num, values)
                       IN [k \in {"Trend Line"} |->
                             [i \in 1..Len(x_num) |->
                                Num(RatAdd(RatMul(fit.slope, Rat(x_num[i], 1)), fit.intercept))]]
                  ELSE EmptyDict
        ma     == IF In(txt_moving_average, st)
                  THEN [k \in {"Moving Average (3-Year)"} |->
                            rolling_mean(values, RollingWindow, RollingMinPeriods)]
                  ELSE EmptyDict
    IN Update(Update(data, trend), ma)

----------------------------------------------------------------------------
(* Input domains of the function-level specifications *)

None == "None"

\* a DataFrame built from the row contents f[1..n]; idx is the RangeIndex
MkFrame(f) ==
    [i \in 1..Len(f) |->
        [idx |-> i - 1, Sex |-> f[i].Sex, Year |-> f[i].Year, Value |-> f[i].Value]]

Frames(rows, n) == {MkFrame(f) : f \in UNION {[1..k -> rows] : k \in 0..n}}

FilterRows == [Sex : {Males, Females, MalesAndFemales, Total}, Year : {2000, 2001}, Value : {7}]

AggRows == [Sex : {Males}, Year : {2000, 2001, 2002}, Value : {-5, 0, 10}]

GenderInputs ==
    { txt_males, txt_male, txt_m, txt_all, txt_empty,
      <<" ","M","a","l","e"," ">>, <<"M","A","L","E","S">>,
      <<"F","e","m","a","l","e">>, <<"f">>, <<"t","o","t","a","l">> }

BoundYears == 1999..2002

\* a text variable that holds no text yet
NoText == <<"None">>

NoFile == [exists |-> FALSE, rows |-> <<>>]

Unset ==
    /\ csv = NoFile
    /\ gender = NoText /\ start_txt = NoText /\ end_txt = NoText
    /\ start_year = None /\ end_year = None
    /\ df_filtered = None /\ df_yearly = None /\ stats = None
    /\ results = None /\ figure = None /\ called = <<>>

----------------------------------------------------------------------------
(* SpecFilter: filter_gender and filter_year_range applied to a DataFrame *)

InitFilter ==
    /\ pc = "ready"
    /\ df \in Frames(FilterRows, MaxRows)
    /\ Unset

CallFilterGender ==
    \E g \in GenderInputs :
        /\ pc = "ready"
        /\ pc' = "filter_gender"
        /\ gender' = g
        /\ df_filtered' = filter_gender(df, g)
        /\ start_year' = None /\ end_year' = None
        /\ UNCHANGED <<csv, df, start_txt, end_txt, df_yearly, stats, results, figure, called>>

CallFilterYearRange ==
    \E s \in BoundYears, e \in BoundYears :
        /\ pc = "ready"
        /\ pc' = "filter_year_range"
        /\ start_year' = s /\ end_year' = e
        /\ df_filtered' = filter_year_range(df, s, e)
        /\ gender' = NoText
        /\ UNCHANGED <<csv, df, start_txt, end_txt, df_yearly, stats, results, figure, called>>

NextFilter == CallFilterGender \/ CallFilterYearRange

SpecFilter == InitFilter /\ [][NextFilter]_vars

----------------------------------------------------------------------------
(* SpecAggregate: aggregate_by_year applied to a DataFrame *)

InitAggregate ==
    /\ pc = "ready"
    /\ df \in Frames(AggRows, MaxRows)
    /\ Unset

CallAggregate ==
    /\ pc = "ready"
    /\ pc' = "aggregate_by_year"
    /\ df_yearly' = aggregate_by_year(df)
    /\ UNCHANGED <<csv, df, gender, start_txt, end_txt, start_year, end_year,
                   df_filtered, stats, results, figure, called>>

NextAggregate == CallAggregate

SpecAggregate == InitAggregate /\ [][NextAggregate]_vars

----------------------------------------------------------------------------
(* Yearly series as aggregate_by_year returns them: ascending distinct     *)
(* years, RangeIndex                                                        *)

MkYearly(Y, f) ==
    LET ys == SortedKeys(Y)
    IN [i \in 1..Len(ys) |->
            [idx |-> i - 1, Year |-> ys[i], YearInt |-> ys[i], ValueAgg |-> f[i]]]

StatYears == 2000..(2000 + MaxPoints)

StatValues == {-20, 0, 10}

StatFrames ==
    UNION { {MkYearly(Y, f) : f \in [1..Cardinality(Y) -> StatValues]} :
                Y \in {Z \in SUBSET StatYears : Cardinality(Z) <= MaxPoints} }

PlotValues == {10, 20, 30, 40}

PlotFrames ==
    UNION { {MkYearly(2000..(1999 + k), f) : f \in [1..k -> PlotValues]} :
                k \in 0..MaxPlotPoints }

\* the list of the vocabulary's names at the positions I
ListOf(I) ==
    LET F[i \in 0..Len(Vocabulary)] ==
            IF i = 0 THEN <<>>
            ELSE IF i \in I THEN Append(F[i-1], Vocabulary[i]) ELSE F[i-1]
    IN F[Len(Vocabulary)]

StatsLists == {ListOf(I) : I \in SUBSET (1..Len(Vocabulary))}

PlotStatsLists == {ListOf(I) : I \in SUBSET {1, 7, 8}}

----------------------------------------------------------------------------
(* SpecStats: calculate_statistics applied to a yearly series *)

InitStats ==
    /\ pc = "ready"
    /\ df_yearly \in StatFrames
    /\ csv = NoFile /\ df = None
    /\ gender = NoText /\ start_txt = NoText /\ end_txt = NoText
    /\ start_year = None /\ end_year = None /\ df_filtered = None
    /\ stats = None /\ results = None /\ figure = None /\ called = <<>>

CallStatistics ==
    \E st \in StatsLists :
        /\ pc = "ready"
        /\ pc' = "calculate_statistics"
        /\ stats' = st
        /\ results' = calculate_statistics(df_yearly, st)
        /\ UNCHANGED <<csv, df, gender, start_txt, end_txt, start_year, end_year,
                       df_filtered, df_yearly, figure, called>>

NextStats == CallStatistics

SpecStats == InitStats /\ [][NextStats]_vars

----------------------------------------------------------------------------
(* SpecPlot: plot_all_charts applied to a yearly series *)

InitPlot ==
    /\ pc = "ready"
    /\ df_yearly \in PlotFrames
    /\ csv = NoFile /\ df = None
    /\ gender = NoText /\ start_txt = NoText /\ end_txt = NoText
    /\ start_year = None /\ end_year = None /\ df_filtered = None
    /\ stats = None /\ results = None /\ figure = None /\ called = <<>>

CallPlot ==
    \E st \in PlotStatsLists :
        /\ pc = "ready"
        /\ pc' = "plot_all_charts"
        /\ stats' = st
        /\ figure' = plot_all_charts(df_yearly, st)
        /\ UNCHANGED <<csv, df, gender, start_txt, end_txt, start_year, end_year,
                       df_filtered, df_yearly, results, called>>

NextPlot == CallPlot

SpecPlot == InitPlot /\ [][NextPlot]_vars

----------------------------------------------------------------------------
(* Conversions of text to numbers *)

Digits == <<"0","1","2","3","4","5","6","7","8","9">>

IsDigit(c) == \E i \in 1..Len(Digits) : Digits[i] = c

DigitValue(c) == (CHOOSE i \in 1..Len(Digits) : Digits[i] = c) - 1

\* the number written by the digits of t, underscores skipped
DigitsValue(t) ==
    LET F[i \in 0..Len(t)] ==
            IF i = 0 THEN 0
            ELSE IF IsDigit(t[i]) THEN 10 * F[i-1] + DigitValue(t[i]) ELSE F[i-1]
    IN F[Len(t)]

\* int(text): surrounding whitespace is ignored, then an optional sign and
\* digits, single underscores allowed between digits; ok = FALSE stands for
\* ValueError
int_parse(t) ==
    LET u      == Strip(t)
        signed == u # <<>> /\ u[1] \in {"+", "-"}
        body   == IF signed THEN SubSeq(u, 2, Len(u)) ELSE u
        valid  == /\ body # <<>>
                  /\ IsDigit(body[1]) /\ IsDigit(body[Len(body)])
                  /\ \A i \in 1..Len(body) : IsDigit(body[i]) \/ body[i] = "_"
                  /\ \A i \in 1..(Len(body) - 1) : ~(body[i] = "_" /\ body[i+1] = "_")
    IN IF valid
       THEN [ok |-> TRUE,
             value |-> IF signed /\ u[1] = "-" THEN -DigitsValue(body) ELSE DigitsValue(body)]
       ELSE [ok |-> FALSE, value |-> 0]

\* int(input(...) or default), falling back to the default when int() fails
int_or_default_lenient(t, default) ==
    IF t = <<>> \/ ~int_parse(t).ok THEN [ok |-> TRUE, value |-> default]
    ELSE int_parse(t)

\* int(input(...) or default): an empty entry takes the default
int_or_default(t, default) ==
    IF t = <<>> THEN [ok |-> TRUE, value |-> default]
    ELSE int_parse(t)

\* pd.to_datetime(token, format='%Y', errors='coerce').dt.year: four digits
\* give the year, anything else NaT (year 0 here)
to_datetime_year(t) ==
    IF Len(t) = 4 /\ \A i \in 1..4 : IsDigit(t[i])
    THEN [ok |-> TRUE, value |-> DigitsValue(t)]
    ELSE [ok |-> FALSE, value |-> 0]

\* pd.to_numeric(token, errors='coerce') on tokens of digits with an optional
\* minus sign; anything else NaN
to_numeric(t) ==
    LET neg  == t # <<>> /\ t[1] = "-"
        body == IF neg THEN SubSeq(t, 2, Len(t)) ELSE t
    IN IF body # <<>> /\ \A i \in 1..Len(body) : IsDigit(body[i])
       THEN [ok |-> TRUE, value |-> IF neg THEN -DigitsValue(body) ELSE DigitsValue(body)]
       ELSE [ok |-> FALSE, value |-> 0]

\* str.split(sep) for a one-character separator
RECURSIVE Split(_, _)
Split(t, sep) ==
    IF \E i \in 1..Len(t) : t[i] = sep
    THEN LET k == CHOOSE i \in 1..Len(t) : t[i] = sep /\ \A j \in 1..(i-1) : t[j] # sep
         IN <<SubSeq(t, 1, k - 1)>> \o Split(SubSeq(t, k + 1, Len(t)), sep)
    ELSE <<t>>

----------------------------------------------------------------------------
(* load_dataset *)

\* rows of the CSV whose Time and Value both convert; the rows keep their
\* index labels
load_dataset(rows) ==
    LET typed == [i \in 1..Len(rows) |->
                    [idx |-> i - 1, Sex |-> rows[i].Sex,
                     Year |-> to_datetime_year(rows[i].Time).value,
                     Value |-> to_numeric(rows[i].Value).value]]
    IN SelectMask(typed, [i \in 1..Len(rows) |->
                            to_datetime_year(rows[i].Time).ok /\ to_numeric(rows[i].Value).ok])

----------------------------------------------------------------------------
(* Spec: main() *)

CsvRows ==
    [Sex : {Males, Females}, Time : {<<"2","0","0","0">>, <<"2","0","0","1">>, <<"n","/","a">>}, Value : {<<"7">>}]
        \cup {[Sex |-> Males, Time |-> <<"2","0","0","0">>, Value |-> <<"x">>]}

CsvFiles ==
    {NoFile} \cup
    {[exists |-> TRUE, rows |-> f] : f \in UNION {[1..k -> CsvRows] : k \in 0..MaxCsvRows}}

MainGenders == {txt_all, <<"M","a","l","e">>, <<"f">>}

StartTexts == {<<>>, <<"2","0","0","0">>, <<" ","2","0","0","1"," ">>, <<"2","0","x","1">>, <<" ">>}

EndTexts == {<<>>, <<"2","0","0","1">>, <<"1","9","9","9">>, <<"a","b","c">>}

StatsInputs == {<<>>, <<"A","v","e","r","a","g","e",","," ","t","r","e","n","d">>, <<"m","o","v","i","n","g"," ","a","v","e","r","a","g","e",",","M","A","X",",",","," ","p","e","r","c","e","n","t"," ","c","h","a","n","g","e"," ">>}

MinYear(d) == CHOOSE y \in {d[i].Year : i \in 1..Len(d)} : \A i \in 1..Len(d) : y <= d[i].Year
MaxYear(d) == CHOOSE y \in {d[i].Year : i \in 1..Len(d)} : \A i \in 1..Len(d) : d[i].Year <= y

\* [s.strip() for s in text.lower().split(",") if s.strip()]
ParseStats(text) ==
    LET parts == Split(Lower(text), ",")
        F[i \in 0..Len(parts)] ==
            IF i = 0 THEN <<>>
            ELSE IF Strip(parts[i]) # <<>> THEN Append(F[i-1], Strip(parts[i])) ELSE F[i-1]
    IN F[Len(parts)]

Init ==
    /\ pc = "start"
    /\ csv \in CsvFiles
    /\ df = None
    /\ gender = NoText /\ start_txt = NoText /\ end_txt = NoText
    /\ start_year = None /\ end_year = None
    /\ df_filtered = None /\ df_yearly = None /\ stats = None
    /\ results = None /\ figure = None /\ called = <<>>

\* lines 139-155: load the file; FileNotFoundError exits with status 1, an
\* empty frame raises IndexError at available_years[0]
Load ==
    /\ pc = "start"
    /\ called' = Append(called, "load_dataset")
    /\ IF ~csv.exists
       THEN pc' = "exit1" /\ df' = df
       ELSE /\ df' = load_dataset(csv.rows)
            /\ pc' = IF df' = <<>> THEN "IndexError" ELSE "gender"
    /\ UNCHANGED <<csv, gender, start_txt, end_txt, start_year, end_year,
                   df_filtered, df_yearly, stats, results, figure>>

\* lines 157-162
ChooseGender ==
    \E g \in MainGenders :
        /\ pc = "gender"
        /\ gender' = g
        /\ df_filtered' = filter_gender(df, g)
        /\ called' = Append(called, "filter_gender")
        /\ pc' = "years"
        /\ UNCHANGED <<csv, df, start_txt, end_txt, start_year, end_year,
                       df_yearly, stats, results, figure>>

\* lines 164-169: the end year is asked for only when the start year converted
ReadYears ==
    \E a \in StartTexts, b \in EndTexts :
        LET s == int_or_default(a, MinYear(df))
            e == int_or_default(b, MaxYear(df))
        IN /\ pc = "years"
           /\ start_txt' = a
           /\ IF ~s.ok
              THEN /\ pc' = "exit1"
                   /\ UNCHANGED <<end_txt, start_year, end_year>>
              ELSE /\ end_txt' = b
                   /\ IF ~e.ok
                      THEN /\ pc' = "exit1"
                           /\ UNCHANGED <<start_year, end_year>>
                      ELSE /\ pc' = "range"
                           /\ start_year' = s.value
                           /\ end_year' = e.value
           /\ UNCHANGED <<csv, df, gender, df_filtered, df_yearly, stats,
                          results, figure, called>>

\* lines 171-178
FilterAndAggregate ==
    /\ pc = "range"
    /\ df_filtered' = filter_year_range(df_filtered, start_year, end_year)
    /\ df_yearly' = aggregate_by_year(df_filtered')
    /\ called' = called \o <<"filter_year_range", "aggregate_by_year">>
    /\ pc' = IF df_yearly' = <<>> THEN "exit0" ELSE "stats"
    /\ UNCHANGED <<csv, df, gender, start_txt, end_txt, start_year, end_year,
                   stats, results, figure>>

\* lines 180-193
Statistics ==
    \E text \in StatsInputs :
        /\ pc = "stats"
        /\ stats' = ParseStats(text)
        /\ results' = calculate_statistics(df_yearly, stats')
        /\ figure' = plot_all_charts(df_yearly, stats')
        /\ called' = called \o <<"calculate_statistics", "plot_all_charts">>
        /\ pc' = "done"
        /\ UNCHANGED <<csv, df, gender, start_txt, end_txt, start_year, end_year,
                       df_filtered, df_yearly>>

Next == Load \/ ChooseGender \/ ReadYears \/ FilterAndAggregate \/ Statistics

Spec == Init /\ [][Next]_vars

----------------------------------------------------------------------------
(* Helpers of the properties *)

RowSet(d) == {d[i] : i \in 1..Len(d)}

SexIn(r, S) == \E c \in S : r.Sex = c

\* sum of Value over a set of rows (rows are distinct by idx)
RECURSIVE SumValue(_)
SumValue(R) ==
    IF R = {} THEN 0
    ELSE LET r == CHOOSE x \in R : TRUE IN r.Value + SumValue(R \ {r})

----------------------------------------------------------------------------
(* Properties of filter_gender *)

\* C2 (as claimed): for a frame whose categories are "Males", "Females" and
\* "Males and females", an expression that starts with "male" and is not
\* exactly "male" or "m" returns exactly the rows whose category is "Males"
\* or "Males and females".
C2_MalesPrefixSelectsMalesAndCombined ==
    ( /\ pc = "filter_gender"
      /\ \A r \in RowSet(df) : SexIn(r, {Males, Females, MalesAndFemales})
      /\ gender \in {txt_males, <<"M","A","L","E","S">>} )
    => df_filtered = SelectSeq(df, LAMBDA r : SexIn(r, {Males, MalesAndFemales}))

\* C3: when the frame holds a row of the combined category, "male" returns
\* only rows whose category is "males" case-insensitively, and that result is
\* a strict subset of what "males" returns.
C3_MaleStrictSubsetOfMales ==
    ( /\ pc = "filter_gender"
      /\ gender = txt_male
      /\ \E r \in RowSet(df) : r.Sex = MalesAndFemales )
    => /\ \A r \in RowSet(df_filtered) : Lower(r.Sex) = txt_males
       /\ RowSet(df_filtered) \subseteq RowSet(filter_gender(df, txt_males))
       /\ RowSet(df_filtered) # RowSet(filter_gender(df, txt_males))
       /\ RowSet(df_filtered) \subseteq RowSet(df)

C3_Witness ==
    /\ pc = "filter_gender"
    /\ gender = txt_male
    /\ \E r \in RowSet(df) : r.Sex = MalesAndFemales
    /\ \E r \in RowSet(df) : r.Sex = Females
    /\ df_filtered # <<>>

----------------------------------------------------------------------------
(* Properties of filter_year_range *)

\* C4: filter_year_range returns exactly the rows with
\* start_year <= year <= end_year, both bounds inclusive; with
\* start_year > end_year the result is empty.
C4_YearRangeInclusive ==
    pc = "filter_year_range"
    => /\ df_filtered = SelectSeq(df, LAMBDA r : start_year <= r.Year /\ r.Year <= end_year)
       /\ start_year > end_year => df_filtered = <<>>

C4_Witness ==
    /\ pc = "filter_year_range"
    /\ start_year = end_year
    /\ df_filtered # <<>>
    /\ Len(df_filtered) < Len(df)

----------------------------------------------------------------------------
(* Properties of aggregate_by_year *)

\* C1: for a non-empty frame the series has strictly increasing years, an
\* entry for a year iff some input row has that year, and each total is the
\* sum of Value over exactly the rows of that year.
C1_AggregateSumsPerYear ==
    (pc = "aggregate_by_year" /\ df # <<>>)
    => /\ \A i, j \in 1..Len(df_yearly) :
            i < j => df_yearly[i].YearInt < df_yearly[j].YearInt
       /\ {df_yearly[i].YearInt : i \in 1..Len(df_yearly)} = {r.Year : r \in RowSet(df)}
       /\ \A i \in 1..Len(df_yearly) :
            df_yearly[i].ValueAgg =
                SumValue({r \in RowSet(df) : r.Year = df_yearly[i].YearInt})

C1_Witness ==
    /\ pc = "aggregate_by_year"
    /\ Len(df) = 3
    /\ Len(df_yearly) = 2
    /\ df_yearly[1].YearInt = 2000 /\ df_yearly[2].YearInt = 2002
    /\ df[1].Year = 2002
    /\ df_yearly[2].ValueAgg = 5

----------------------------------------------------------------------------
(* Properties of calculate_statistics *)

\* the keys of the result dict that belong to a statistic
StatKeys(s) ==
    CASE s = txt_average        -> {"Average"}
      [] s = txt_max            -> {"Max"}
      [] s = txt_min            -> {"Min"}
      [] s = txt_median         -> {"Median"}
      [] s = txt_stddev         -> {"Std Dev"}
      [] s = txt_percent_change -> {"Percent Change (%)", "Percent Change Note"}
      [] s = txt_trend          -> {"Trend Slope (value per year)", "Trend Intercept", "Trend"}
      [] OTHER                  -> {}

Computed == {Vocabulary[i] : i \in 1..Len(Vocabulary)} \ {txt_moving_average}

\* every requested statistic other than s has an entry
OthersPresent(s) ==
    \A o \in Computed \ {s} :
        In(o, stats) => StatKeys(o) \cap DOMAIN results # {}

\* the totals at the lowest and the highest year of the series
FirstTotal ==
    df_yearly[CHOOSE i \in 1..Len(df_yearly) :
                \A j \in 1..Len(df_yearly) : df_yearly[i].YearInt <= df_yearly[j].YearInt].ValueAgg

LastTotal ==
    df_yearly[CHOOSE i \in 1..Len(df_yearly) :
                \A j \in 1..Len(df_yearly) : df_yearly[j].YearInt <= df_yearly[i].YearInt].ValueAgg

\* C5: for an empty series the result has exactly the key "Error", mapped to
\* a non-empty string, whatever was requested.
C5_EmptySeriesOnlyError ==
    (pc = "calculate_statistics" /\ df_yearly = <<>>)
    => /\ DOMAIN results = {"Error"}
       /\ results["Error"].kind = "str"
       /\ results["Error"].text # ""

C5_Witness ==
    /\ pc = "calculate_statistics"
    /\ df_yearly = <<>>
    /\ In(txt_average, stats)
    /\ In(txt_trend, stats)

\* C6: with "percent change" requested on a non-empty series: if the first
\* total is 0 the value is null, a non-empty note is present and every other
\* requested statistic still has an entry; otherwise the value is
\* (last - first) / abs(first) * 100 and there is no note.
C6_PercentChange ==
    (pc = "calculate_statistics" /\ df_yearly # <<>> /\ In(txt_percent_change, stats))
    => /\ "Percent Change (%)" \in DOMAIN results
       /\ IF FirstTotal = 0
          THEN /\ results["Percent Change (%)"].kind = "None"
               /\ "Percent Change Note" \in DOMAIN results
               /\ results["Percent Change Note"].kind = "str"
               /\ results["Percent Change Note"].text # ""
               /\ OthersPresent(txt_percent_change)
          ELSE /\ results["Percent Change (%)"].kind = "number"
               /\ results["Percent Change (%)"].d > 0
               /\ results["Percent Change (%)"].n * Abs(FirstTotal)
                    = (LastTotal - FirstTotal) * 100 * results["Percent Change (%)"].d
               /\ "Percent Change Note" \notin DOMAIN results

C6_Witness ==
    /\ pc = "calculate_statistics"
    /\ Len(df_yearly) >= 2
    /\ FirstTotal = 0 /\ LastTotal # 0
    /\ In(txt_percent_change, stats)
    /\ In(txt_median, stats) /\ In(txt_trend, stats)
    /\ "Median" \in DOMAIN results

\* C7: with "trend" requested: a one-point series gives the textual marker,
\* no slope and no intercept, and every other requested statistic still has
\* an entry; a series of two or more points gives a slope and an intercept
\* and no marker.
C7_Trend ==
    (pc = "calculate_statistics" /\ df_yearly # <<>> /\ In(txt_trend, stats))
    => IF Len(df_yearly) = 1
       THEN /\ "Trend" \in DOMAIN results
            /\ results["Trend"].kind = "str"
            /\ results["Trend"].text # ""
            /\ "Trend Slope (value per year)" \notin DOMAIN results
            /\ "Trend Intercept" \notin DOMAIN results
            /\ OthersPresent(txt_trend)
       ELSE /\ "Trend Slope (value per year)" \in DOMAIN results
            /\ "Trend Intercept" \in DOMAIN results
            /\ results["Trend Slope (value per year)"].kind = "number"
            /\ results["Trend Intercept"].kind = "number"
            /\ "Trend" \notin DOMAIN results

C7_Witness ==
    /\ pc = "calculate_statistics"
    /\ Len(df_yearly) = 1
    /\ In(txt_trend, stats) /\ In(txt_average, stats) /\ In(txt_stddev, stats)
    /\ "Trend" \in DOMAIN results
    /\ "Average" \in DOMAIN results

\* C8: for a non-empty series the result has an entry for each requested
\* statistic among average, max, min, median, stddev, percent change and
\* trend, and no entry of a statistic that was not requested.
C8_RequestedOnly ==
    (pc = "calculate_statistics" /\ df_yearly # <<>>)
    => /\ \A s \in Computed :
            IF In(s, stats) THEN StatKeys(s) \cap DOMAIN results # {}
            ELSE StatKeys(s) \cap DOMAIN results = {}
       /\ DOMAIN results \subseteq UNION {StatKeys(s) : s \in Computed}

C8_Witness ==
    /\ pc = "calculate_statistics"
    /\ df_yearly # <<>>
    /\ stats = <<txt_max, txt_stddev, txt_moving_average>>
    /\ DOMAIN results = {"Max", "Std Dev"}

----------------------------------------------------------------------------
(* Properties of the moving-average overlay *)

Totals == [i \in 1..Len(df_yearly) |-> df_yearly[i].ValueAgg]

\* sum of the totals at the 0-based positions lo..hi
RECURSIVE TotalsBetween(_, _)
TotalsBetween(lo, hi) ==
    IF hi < lo THEN 0 ELSE Totals[hi + 1] + TotalsBetween(lo, hi - 1)

Max2(a, b) == IF a >= b THEN a ELSE b
Min2(a, b) == IF a <= b THEN a ELSE b

\* C9: when "moving average" is requested the overlay has one value per
\* entry of the series and its value at index i is the mean of the totals at
\* indices max(0, i-2)..i (window size min(3, i+1)); totals [10,20,30,40]
\* give [10,15,20,30].
C9_MovingAverage ==
    (pc = "plot_all_charts" /\ In(txt_moving_average, stats))
    => /\ "Moving Average (3-Year)" \in DOMAIN figure
       /\ LET ma == figure["Moving Average (3-Year)"]
          IN /\ Len(ma) = Len(df_yearly)
             /\ \A i \in 0..(Len(ma) - 1) :
                    /\ ma[i + 1].kind = "number"
                    /\ ma[i + 1].d > 0
                    /\ ma[i + 1].n * Min2(3, i + 1)
                         = TotalsBetween(Max2(0, i - 2), i) * ma[i + 1].d
             /\ Totals = <<10, 20, 30, 40>>
                    => ma = <<IntVal(10), IntVal(15), IntVal(20), IntVal(30)>>

C9_Witness ==
    /\ pc = "plot_all_charts"
    /\ In(txt_moving_average, stats)
    /\ Totals = <<10, 20, 30, 40>>
    /\ figure["Moving Average (3-Year)"][4] = IntVal(30)

----------------------------------------------------------------------------
(* Properties of main() *)

HasCalled(f) == \E i \in 1..Len(called) : called[i] = f

\* the run stopped with status 1 and none of the later stages ran
AbortedBeforePipeline ==
    /\ pc = "exit1"
    /\ ~HasCalled("filter_year_range")
    /\ ~HasCalled("aggregate_by_year")
    /\ ~HasCalled("calculate_statistics")

\* C10 (as claimed): whenever the text entered for the start year or the
\* end year cannot be converted to an integer, the run is aborted before
\* the year-range filter, the aggregation and the statistics.
C10_NonConvertibleBoundAborts ==
    ( \/ (start_txt # NoText /\ ~int_parse(start_txt).ok)
      \/ (end_txt # NoText /\ ~int_parse(end_txt).ok) )
    => AbortedBeforePipeline

\* C10 (amended): whenever the text entered for the start year or the end
\* year is not empty and cannot be converted to an integer, the run is
\* aborted before the year-range filter, the aggregation and the statistics.
C10_NonEmptyNonConvertibleBoundAborts ==
    ( \/ (start_txt # NoText /\ start_txt # <<>> /\ ~int_parse(start_txt).ok)
      \/ (end_txt # NoText /\ end_txt # <<>> /\ ~int_parse(end_txt).ok) )
    => AbortedBeforePipeline

C10_Witness ==
    /\ pc = "exit1"
    /\ int_parse(start_txt).ok
    /\ end_txt # NoText /\ end_txt # <<>> /\ ~int_parse(end_txt).ok
    /\ HasCalled("filter_gender")

====
